---- MODULE Spec2Model ----
(***************************************************************************)
(* A model of the trade-history utilities:                                 *)
(*   app/export_trade_histories.py  the BigIntHumanReadable codec, the     *)
(*                                  query builder, the raw-SQL guard       *)
(*   app/Filtertrade.py             the chunked CSV row filter             *)
(* Text is modelled as TLA+ strings, read character by character.  A       *)
(* Python int is modelled by its decimal rendering (str(int)), because the *)
(* 17-digit encoded values do not fit a machine word.                      *)
(***************************************************************************)
EXTENDS Integers, Sequences, FiniteSets, TLC

VARIABLES
    call,       \* the operation of the codec / filter_chunk / guard last called
    arg,        \* its argument
    ret,        \* what it returned or raised
    db,         \* the store as the query functions see it: connections, statements
    pc,         \* position of the running fetch_* / filter_csv call
    run,        \* locals of the running call
    fs          \* the file system of the CSV filter: path -> table or "absent"

vars == <<call, arg, ret, db, pc, run, fs>>

(***************************************************************************)
(* Characters and strings                                                  *)
(***************************************************************************)
CharAt(s, i) == SubSeq(s, i, i)

DigitChars == "0123456789"

IsDigitChar(c) == \E i \in 1..10 : CharAt(DigitChars, i) = c

DigitVal(c) == (CHOOSE i \in 1..10 : CharAt(DigitChars, i) = c) - 1

DigitChar(d) == CharAt(DigitChars, d + 1)

IsSpace(c) == c \in {" ", "\t", "\n", "\r"}

RECURSIVE LStrip(_)
LStrip(s) ==
    IF Len(s) > 0 /\ IsSpace(CharAt(s, 1)) THEN LStrip(SubSeq(s, 2, Len(s))) ELSE s

RECURSIVE RStrip(_)
RStrip(s) ==
    IF Len(s) > 0 /\ IsSpace(CharAt(s, Len(s)))
    THEN RStrip(SubSeq(s, 1, Len(s) - 1)) ELSE s

Strip(s) == RStrip(LStrip(s))

\* str.isdigit() on the ASCII texts of the model
IsDigit(s) == Len(s) > 0 /\ \A i \in 1..Len(s) : IsDigitChar(CharAt(s, i))

\* int(s[a..b]) of a digit field short enough for a machine integer
RECURSIVE FieldVal(_)
FieldVal(s) ==
    IF Len(s) = 0 THEN 0
    ELSE 10 * FieldVal(SubSeq(s, 1, Len(s) - 1)) + DigitVal(CharAt(s, Len(s)))

\* "%0<w>d" % n
RECURSIVE Pad(_, _)
Pad(n, w) == IF w = 0 THEN "" ELSE Pad(n \div 10, w - 1) \o DigitChar(n % 10)

\* str(n) for a small non-negative n
RECURSIVE Str(_)
Str(n) == IF n < 10 THEN DigitChar(n) ELSE Str(n \div 10) \o DigitChar(n % 10)

\* str(int(s)) for a digit string s: Python's int drops the leading zeros
RECURSIVE IntOfDigits(_)
IntOfDigits(s) ==
    IF Len(s) > 1 /\ CharAt(s, 1) = "0" THEN IntOfDigits(SubSeq(s, 2, Len(s))) ELSE s

(***************************************************************************)
(* Values of the codec                                                     *)
(***************************************************************************)
None == [kind |-> "none"]
PyInt(s) == [kind |-> "int", s |-> s]
PyStr(s) == [kind |-> "str", s |-> s]
Raise(e) == [kind |-> "error", error |-> e]
Instant(d) == [kind |-> "datetime", dt |-> d]

\* datetime(year, ..., microsecond, tzinfo): aware = FALSE is a naive datetime,
\* otherwise offset is the UTC offset of its tzinfo in hours
DateTime(y, mo, d, h, mi, s, us, aw, off) ==
    [year |-> y, month |-> mo, day |-> d, hour |-> h, minute |-> mi, second |-> s,
     microsecond |-> us, aware |-> aw, offset |-> off]

IsLeap(y) == (y % 4 = 0 /\ y % 100 # 0) \/ y % 400 = 0

DaysInMonth(y, m) ==
    IF m = 2 THEN (IF IsLeap(y) THEN 29 ELSE 28)
    ELSE IF m \in {4, 6, 9, 11} THEN 30 ELSE 31

(***************************************************************************)
(* Datetime conversion helpers (export_trade_histories.py)                 *)
(***************************************************************************)
EpochSentinels == {"0", "19700101000000000"}

\* str(value) of an int or a str
StrOf(val) == val.s

\* a sentinel test that knows "0" only
IsEpochSentinelZeroOnly(val) ==
    IF val.kind = "none" THEN TRUE
    ELSE Strip(StrOf(val)) = "0"

IsEpochSentinel(val) ==
    IF val.kind = "none" THEN TRUE
    ELSE Strip(StrOf(val)) \in EpochSentinels

\* datetime.strptime(s, "%Y%m%d%H%M%S").replace(tzinfo=timezone.utc) of 14 digits:
\* the format's pattern takes two digits per field only inside the field's range,
\* and the datetime constructor refuses year 0, a day past the month's end and
\* the seconds 60 and 61 that the pattern lets through
Strptime(s) ==
    LET y  == FieldVal(SubSeq(s, 1, 4))
        mo == FieldVal(SubSeq(s, 5, 6))
        d  == FieldVal(SubSeq(s, 7, 8))
        h  == FieldVal(SubSeq(s, 9, 10))
        mi == FieldVal(SubSeq(s, 11, 12))
        se == FieldVal(SubSeq(s, 13, 14))
    IN  IF mo \notin 1..12 \/ d \notin 1..31 \/ h > 23 \/ mi > 59 \/ se > 61
        THEN Raise("ValueError")
        ELSE IF y = 0 \/ d > DaysInMonth(y, mo) \/ se > 59
        THEN Raise("ValueError")
        ELSE Instant(DateTime(y, mo, d, h, mi, se, 0, TRUE, 0))

BigintHrToDatetime(value) ==
    IF value.kind = "none" THEN None
    ELSE LET s == Strip(StrOf(value)) IN
        IF s = "" \/ IsEpochSentinel(PyStr(s)) THEN None
        ELSE IF ~IsDigit(s) THEN Raise("ValueError")
        ELSE IF Len(s) = 14 THEN Strptime(s)
        ELSE IF Len(s) = 17 THEN
            LET base == SubSeq(s, 1, 14)
                ms   == SubSeq(s, 15, 17)
                r    == Strptime(base)
            IN  IF r.kind = "error" THEN r
                ELSE Instant([r.dt EXCEPT !.microsecond = FieldVal(ms) * 1000])
        ELSE Raise("ValueError")

\* dt.astimezone(timezone.utc) of an aware datetime whose offset is a whole number
\* of hours: the wall clock moves back by the offset, the date with it
AsTimezoneUtc(dt) ==
    LET h == dt.hour - dt.offset IN
    IF h \in 0..23 THEN Instant([dt EXCEPT !.hour = h, !.offset = 0])
    ELSE IF h < 0 THEN
        IF dt.day > 1
        THEN Instant([dt EXCEPT !.hour = h + 24, !.day = dt.day - 1, !.offset = 0])
        ELSE IF dt.month > 1
        THEN Instant([dt EXCEPT !.hour = h + 24, !.month = dt.month - 1,
                                !.day = DaysInMonth(dt.year, dt.month - 1),
                                !.offset = 0])
        ELSE IF dt.year > 1
        THEN Instant([dt EXCEPT !.hour = h + 24, !.year = dt.year - 1, !.month = 12,
                                !.day = 31, !.offset = 0])
        ELSE Raise("OverflowError")
    ELSE
        IF dt.day < DaysInMonth(dt.year, dt.month)
        THEN Instant([dt EXCEPT !.hour = h - 24, !.day = dt.day + 1, !.offset = 0])
        ELSE IF dt.month < 12
        THEN Instant([dt EXCEPT !.hour = h - 24, !.month = dt.month + 1, !.day = 1,
                                !.offset = 0])
        ELSE IF dt.year < 9999
        THEN Instant([dt EXCEPT !.hour = h - 24, !.year = dt.year + 1, !.month = 1,
                                !.day = 1, !.offset = 0])
        ELSE Raise("OverflowError")

\* int(round(microsecond / 1000.0)): Python 3 rounds a tie to the even neighbour,
\* and k + 0.5 is an exact float for every k in 0..999
RoundMs(us) ==
    LET q == us \div 1000
        r == us % 1000
    IN  IF r < 500 THEN q
        ELSE IF r > 500 THEN q + 1
        ELSE IF q % 2 = 0 THEN q ELSE q + 1

\* aware.strftime("%Y%m%d%H%M%S"): the C library decides whether a year below
\* 1000 is zero-padded (padYear) or not
Strftime(dt, padYear) ==
    (IF padYear THEN Pad(dt.year, 4) ELSE Str(dt.year))
    \o Pad(dt.month, 2) \o Pad(dt.day, 2)
    \o Pad(dt.hour, 2) \o Pad(dt.minute, 2) \o Pad(dt.second, 2)

DatetimeToBigintHr(t, padYear) ==
    IF t.kind = "none" THEN None
    ELSE LET conv == IF ~t.dt.aware
                     THEN Instant([t.dt EXCEPT !.aware = TRUE, !.offset = 0])
                     ELSE AsTimezoneUtc(t.dt)
         IN IF conv.kind = "error" THEN conv
            ELSE LET ms0   == RoundMs(conv.dt.microsecond)
                     aware == IF ms0 = 1000 THEN [conv.dt EXCEPT !.microsecond = 0]
                                            ELSE conv.dt
                     ms    == IF ms0 = 1000 THEN 0 ELSE ms0
                 IN  PyInt(IntOfDigits(Strftime(aware, padYear) \o Pad(ms, 3)))

(***************************************************************************)
(* The codec under call: a value is drawn, then decode and encode are      *)
(* applied to it in turn, each to the result of the one before.            *)
(***************************************************************************)
MaxCalls == 2

Text14(y, mo, d, h, mi, se) ==
    Pad(y, 4) \o Pad(mo, 2) \o Pad(d, 2) \o Pad(h, 2) \o Pad(mi, 2) \o Pad(se, 2)

TextYears == {0, 1, 999, 1000, 1970, 2023, 2024, 9999}
TextMonths == {0, 1, 2, 12, 13}
TextDays == {0, 1, 11, 29, 31, 32}
TextTimes == {<<0, 0, 0>>, <<11, 11, 11>>, <<8, 43, 34>>, <<23, 59, 59>>,
              <<24, 0, 0>>, <<0, 60, 0>>, <<0, 0, 60>>, <<0, 0, 62>>}
TextMillis == {0, 1, 111, 999}

Texts14 ==
    {Text14(y, mo, d, t[1], t[2], t[3]) :
        y \in TextYears, mo \in TextMonths, d \in TextDays, t \in TextTimes}

Texts17 == {b \o Pad(ms, 3) : b \in Texts14, ms \in TextMillis}

OddTexts ==
    {"", " ", " \t\n", "0", " 0 ", "00", "abc", "2023-02-09", "-20230209084334",
     "2023020908433", "202302090843340", "20230209084334000000", "2023020908433x",
     "20230209084334.5"}

EncodedValues ==
    {None}
    \cup {PyStr(s) : s \in Texts14 \cup Texts17 \cup OddTexts}
    \cup {PyStr(" " \o s \o "\n") : s \in Texts14 \cup Texts17}
    \cup {PyInt(s) : s \in {x \in Texts14 \cup Texts17 : CharAt(x, 1) # "0"} \cup {"0"}}

Years == {1, 999, 1000, 1970, 2023, 9999}
Months == {1, 2, 12}
Days == {1, 11, 28}
Times == {<<0, 0, 0>>, <<11, 11, 11>>, <<8, 43, 34>>, <<23, 59, 59>>}
Micros == {0, 1, 499, 500, 501, 1000, 1500, 2500, 111000, 999000, 999499, 999500,
           999999}
Zones == {<<FALSE, 0>>, <<TRUE, 0>>, <<TRUE, 7>>, <<TRUE, -5>>}

Instants ==
    {None}
    \cup {Instant(DateTime(y, mo, d, t[1], t[2], t[3], us, z[1], z[2])) :
            y \in Years, mo \in Months, d \in Days, t \in Times, us \in Micros,
            z \in Zones}

InitCodec ==
    /\ call = <<>>
    /\ arg \in EncodedValues \cup Instants
    /\ ret = <<>>
    /\ db = [connects |-> 0, open |-> FALSE, executed |-> <<>>]
    /\ pc = "codec"
    /\ run = [none |-> TRUE]
    /\ fs = [none |-> TRUE]

\* the value the next call is applied to
Current == IF ret = <<>> THEN arg ELSE ret[Len(ret)]

Decode ==
    /\ pc = "codec"
    /\ Len(call) < MaxCalls
    /\ Current.kind \in {"none", "int", "str"}
    /\ call' = Append(call, "bigint_hr_to_datetime")
    /\ ret' = Append(ret, BigintHrToDatetime(Current))
    /\ UNCHANGED <<arg, db, pc, run, fs>>

Encode ==
    /\ pc = "codec"
    /\ Len(call) < MaxCalls
    /\ Current.kind \in {"none", "datetime"}
    /\ \E padYear \in BOOLEAN :
        ret' = Append(ret, DatetimeToBigintHr(Current, padYear))
    /\ call' = Append(call, "datetime_to_bigint_hr")
    /\ UNCHANGED <<arg, db, pc, run, fs>>

NextCodec == Decode \/ Encode

SpecCodec == InitCodec /\ [][NextCodec]_vars

(***************************************************************************)
(* Claims about the codec                                                  *)
(***************************************************************************)
DecodeThenEncode == call = <<"bigint_hr_to_datetime", "datetime_to_bigint_hr">>
EncodeThenDecode == call = <<"datetime_to_bigint_hr", "bigint_hr_to_datetime">>

\* the 17-digit canonical form of an encoded value
Canon17(v) ==
    LET s == Strip(StrOf(v)) IN IF Len(s) = 14 THEN s \o "000" ELSE s

\* C1: for every non-sentinel value v that decode accepts, encode(decode(v)) is the
\* 17-digit canonical form of v: v itself when v has 17 digits, v followed by "000"
\* when v has 14, leading zero digits included.
C1_EncodeDecodeCanonical ==
    (DecodeThenEncode /\ ret[1].kind = "datetime")
        => (ret[2].kind = "int" /\ ret[2].s = Canon17(arg))

\* The same law for the values whose year has four significant digits.
C1_CanonicalFromYear1000 ==
    (DecodeThenEncode /\ ret[1].kind = "datetime" /\ ret[1].dt.year >= 1000)
        => (ret[2].kind = "int" /\ ret[2].s = Canon17(arg))

IsUtcMillis(t) ==
    /\ t.kind = "datetime"
    /\ t.dt.aware /\ t.dt.offset = 0
    /\ t.dt.microsecond % 1000 = 0

Epoch == Instant(DateTime(1970, 1, 1, 0, 0, 0, 0, TRUE, 0))

\* C2: for every UTC instant t with a whole number of milliseconds, the Unix epoch
\* included, decode(encode(t)) is t.
C2_DecodeEncodeIdentity ==
    (EncodeThenDecode /\ IsUtcMillis(arg)) => ret[2] = arg

\* The value the i-th call was applied to
InputOf(i) == IF i = 1 THEN arg ELSE ret[i - 1]

IsBlank(s) == \A i \in 1..Len(s) : IsSpace(CharAt(s, i))

\* an absent value, an empty or whitespace-only string, 0 / "0", the sentinel
IsAbsentValue(v) ==
    \/ v.kind = "none"
    \/ v.kind = "str" /\ IsBlank(v.s)
    \/ v.kind \in {"int", "str"} /\ v.s \in {"0", "19700101000000000"}

\* C3: decode returns null for an absent value, a blank string, 0 / "0" and the
\* sentinel "19700101000000000", never the epoch instant; "19700101000000001"
\* decodes to the instant one millisecond after the epoch.
C3_SentinelsDecodeToNull ==
    \A i \in 1..Len(call) :
        call[i] = "bigint_hr_to_datetime" =>
            /\ IsAbsentValue(InputOf(i)) => ret[i] = None
            /\ (InputOf(i).kind \in {"int", "str"}
                    /\ Strip(InputOf(i).s) \in EpochSentinels) => ret[i] # Epoch
            /\ (InputOf(i).kind \in {"int", "str"}
                    /\ InputOf(i).s = "19700101000000001")
                => ret[i] = Instant(DateTime(1970, 1, 1, 0, 0, 0, 1000, TRUE, 0))

C3_SentinelDecoded ==
    /\ call = <<"bigint_hr_to_datetime">>
    /\ arg = PyStr("19700101000000000")
    /\ ret = <<None>>

\* round half up of microseconds / 1000
HalfUpMs(us) == (us + 500) \div 1000

\* C4: for a non-null instant encode gives the 14 date/time digits of the instant
\* in UTC and then 3 millisecond digits, 17 characters, the milliseconds being
\* microseconds / 1000 rounded half up, 1000 written as 000 without a carry.
C4_EncodeHalfUp17Digits ==
    (Len(call) >= 1 /\ call[1] = "datetime_to_bigint_hr" /\ arg.kind = "datetime"
        /\ ret[1].kind # "error")
    => LET utc == IF arg.dt.aware THEN AsTimezoneUtc(arg.dt).dt ELSE arg.dt
           ms  == HalfUpMs(arg.dt.microsecond)
       IN  /\ Len(ret[1].s) = 17
           /\ ret[1].s = Text14(utc.year, utc.month, utc.day, utc.hour, utc.minute,
                                utc.second)
                         \o Pad(IF ms = 1000 THEN 0 ELSE ms, 3)

(***************************************************************************)
(* Record filter (Filtertrade.py).  A DataFrame is its column names and    *)
(* its rows, a row a function from column name to cell.  A cell is an int, *)
(* a float (m / 10^e), a str or NaN.                                       *)
(***************************************************************************)
CANCELLED_TOKENS == {"cancelled", "canceled"}

NaN == [t |-> "nan"]
IntCell(n) == [t |-> "int", m |-> n, e |-> 0]
FloatCell(m, e) == [t |-> "float", m |-> m, e |-> e]
StrCell(s) == [t |-> "str", s |-> s]

DataFrame(cols, rows) == [kind |-> "frame", columns |-> cols, rows |-> rows]

HasColumn(df, c) == \E i \in 1..Len(df.columns) : df.columns[i] = c

UpperChars == "ABCDEFGHIJKLMNOPQRSTUVWXYZ"
LowerChars == "abcdefghijklmnopqrstuvwxyz"

LowerChar(c) ==
    IF \E i \in 1..26 : CharAt(UpperChars, i) = c
    THEN CharAt(LowerChars, CHOOSE i \in 1..26 : CharAt(UpperChars, i) = c)
    ELSE c

RECURSIVE Lower(_)
Lower(s) ==
    IF Len(s) = 0 THEN "" ELSE LowerChar(CharAt(s, 1)) \o Lower(SubSeq(s, 2, Len(s)))

RECURSIVE Pow10(_)
Pow10(e) == IF e = 0 THEN 1 ELSE 10 * Pow10(e - 1)

\* the position of the first "." of s, 0 when there is none
DotAt(s) ==
    IF \E i \in 1..Len(s) : CharAt(s, i) = "."
    THEN CHOOSE i \in 1..Len(s) :
            CharAt(s, i) = "." /\ \A j \in 1..(i - 1) : CharAt(s, j) # "."
    ELSE 0

\* one str cell under pd.to_numeric(errors="coerce"): an optional sign, digits,
\* an optional fraction; anything else is NaN
ParseNumber(s) ==
    LET signed == Len(s) > 0 /\ CharAt(s, 1) \in {"+", "-"}
        neg    == signed /\ CharAt(s, 1) = "-"
        body   == IF signed THEN SubSeq(s, 2, Len(s)) ELSE s
        dot    == DotAt(body)
        ip     == IF dot = 0 THEN body ELSE SubSeq(body, 1, dot - 1)
        fp     == IF dot = 0 THEN "" ELSE SubSeq(body, dot + 1, Len(body))
        digits == ip \o fp
    IN  IF ~IsDigit(digits) THEN NaN
        ELSE IF dot = 0
        THEN IntCell(IF neg THEN -FieldVal(digits) ELSE FieldVal(digits))
        ELSE FloatCell(IF neg THEN -FieldVal(digits) ELSE FieldVal(digits), Len(fp))

\* pd.to_numeric(series, errors="coerce"), cell by cell
ToNumeric(cell) == IF cell.t = "str" THEN ParseNumber(cell.s) ELSE cell

\* a _magic_is_zero that takes an unparsable value for zero
MagicIsZeroOrNaN(cell) ==
    LET mag == ToNumeric(cell) IN mag.t = "nan" \/ mag.m = 0

\* _magic_is_zero: mag.eq(0), False for NaN
MagicIsZero(cell) ==
    LET mag == ToNumeric(cell) IN mag.t # "nan" /\ mag.m = 0

\* series.astype("string").fillna(""), cell by cell
AsString(cell) ==
    IF cell.t = "str" THEN cell.s
    ELSE IF cell.t = "nan" THEN ""
    ELSE IF cell.t = "int" THEN Str(cell.m)
    ELSE Str(cell.m \div Pow10(cell.e)) \o "." \o Pad(cell.m % Pow10(cell.e), cell.e)

\* a _normalize_comment that forgets to lower-case
NormalizeCommentKeepCase(cell) == Strip(AsString(cell))

\* _normalize_comment
NormalizeComment(cell) == Lower(Strip(AsString(cell)))

RECURSIVE Loc(_, _)
\* df.loc[~mask]: the rows the mask does not mark, in their order
Loc(rows, mask) ==
    IF rows = <<>> THEN <<>>
    ELSE (IF mask[1] THEN <<>> ELSE <<rows[1]>>) \o Loc(Tail(rows), Tail(mask))

FilterChunk(df) ==
    IF ~HasColumn(df, "magic") THEN Raise("KeyError")
    ELSE IF ~HasColumn(df, "comment") THEN
        LET magic_zero == [i \in 1..Len(df.rows) |-> MagicIsZero(df.rows[i]["magic"])]
        IN  DataFrame(df.columns, Loc(df.rows, magic_zero))
    ELSE
        LET magic_zero == [i \in 1..Len(df.rows) |-> MagicIsZero(df.rows[i]["magic"])]
            comments   == [i \in 1..Len(df.rows) |->
                              NormalizeComment(df.rows[i]["comment"])]
            cancelled  == [i \in 1..Len(df.rows) |-> comments[i] \in CANCELLED_TOKENS]
            mask_drop  == [i \in 1..Len(df.rows) |-> magic_zero[i] \/ cancelled[i]]
        IN  DataFrame(df.columns, Loc(df.rows, mask_drop))

(***************************************************************************)
(* filter_chunk under call                                                 *)
(***************************************************************************)
MaxChunkRows == 2

MagicCells ==
    {IntCell(0), IntCell(5), FloatCell(0, 1), StrCell("0"), StrCell("abc"), NaN}

CommentCells ==
    {StrCell("cancelled"), StrCell("Cancelled"), StrCell(" cancelled  "),
     StrCell("CANCELED"), StrCell("filled"), StrCell("cancelled order"), NaN}

ColumnLists == {<<"id", "magic", "comment">>, <<"id", "magic">>, <<"id", "comment">>}

\* row i of a frame with these columns, given its magic and comment cells
RowOf(cols, i, mc, cc) ==
    [c \in {cols[j] : j \in 1..Len(cols)} |->
        IF c = "magic" THEN mc ELSE IF c = "comment" THEN cc ELSE IntCell(i)]

InitChunk ==
    /\ call = <<>>
    /\ \E cols \in ColumnLists, n \in 0..MaxChunkRows :
        \E cells \in [1..n -> MagicCells \X CommentCells] :
            arg = DataFrame(cols, [i \in 1..n |->
                                    RowOf(cols, i, cells[i][1], cells[i][2])])
    /\ ret = <<>>
    /\ db = [connects |-> 0, open |-> FALSE, executed |-> <<>>]
    /\ pc = "chunk"
    /\ run = [none |-> TRUE]
    /\ fs = [none |-> TRUE]

CallFilterChunk ==
    /\ pc = "chunk"
    /\ call = <<>>
    /\ call' = <<"filter_chunk">>
    /\ ret' = <<FilterChunk(arg)>>
    /\ UNCHANGED <<arg, db, pc, run, fs>>

NextChunk == CallFilterChunk

SpecChunk == InitChunk /\ [][NextChunk]_vars

\* the cells of the model whose magic is a number equal to 0
ZeroMagic == {IntCell(0), FloatCell(0, 1), StrCell("0")}

\* the cells of the model whose comment, trimmed and lower-cased, is a token
CancelledComment ==
    {StrCell("cancelled"), StrCell("Cancelled"), StrCell(" cancelled  "),
     StrCell("CANCELED")}

ShouldDrop(df, row) ==
    \/ row["magic"] \in ZeroMagic
    \/ HasColumn(df, "comment") /\ row["comment"] \in CancelledComment

RECURSIVE Keep(_, _)
Keep(df, rows) ==
    IF rows = <<>> THEN <<>>
    ELSE (IF ShouldDrop(df, rows[1]) THEN <<>> ELSE <<rows[1]>>) \o Keep(df, Tail(rows))

\* C5: filter_chunk drops a row iff its magic is a number equal to 0, or the comment
\* column exists and the comment, trimmed and lower-cased, is "cancelled" or
\* "canceled"; every other row (unparsable or missing magic included) is kept
\* unchanged and in order; without a comment column only magic = 0 rows go.
C5_DropIffZeroMagicOrCancelled ==
    (call = <<"filter_chunk">> /\ HasColumn(arg, "magic"))
        => ret[1] = DataFrame(arg.columns, Keep(arg, arg.rows))

C5_DroppedAndKept ==
    /\ call = <<"filter_chunk">>
    /\ arg.columns = <<"id", "magic", "comment">>
    /\ Len(arg.rows) = 2
    /\ arg.rows[1]["magic"] = IntCell(5)
    /\ arg.rows[1]["comment"] = StrCell(" cancelled  ")
    /\ arg.rows[2]["magic"] = StrCell("abc")
    /\ arg.rows[2]["comment"] = StrCell("filled")
    /\ ret[1].rows = <<arg.rows[2]>>

(***************************************************************************)
(* Query builder and record mapper (export_trade_histories.py)             *)
(***************************************************************************)
MaxLimit == 10000

AllowedCols == {"ID", "OpenTime", "CloseTime", "TimeStamp", "Ticket"}

COLUMNS ==
    <<"ID", "TradeAccountID", "Ticket", "SymbolName", "Digits", "Type", "Quantity",
      "State", "OpenTime", "OpenPrice", "OpenRate", "CloseTime", "ClosePrice",
      "CloseRate", "StopLoss", "TakeProfit", "Expiration", "Commission",
      "CommissionAgent", "Swap", "Profit", "Tax", "Magic", "Comment", "TimeStamp">>

REQUIRED_SET == {COLUMNS[i] : i \in 1..Len(COLUMNS)}

RECURSIVE Join(_, _)
\* sep.join(parts)
Join(sep, parts) ==
    IF parts = <<>> THEN ""
    ELSE IF Len(parts) = 1 THEN parts[1]
    ELSE parts[1] \o sep \o Join(sep, Tail(parts))

TradeQuery(acc, tk, sym, of, ot, cf, ct, cl, lim, off, ob, od) ==
    [trade_account_id |-> acc, ticket |-> tk, symbol |-> sym, opened_from |-> of,
     opened_to |-> ot, closed_from |-> cf, closed_to |-> ct, comment_like |-> cl,
     limit |-> lim, offset |-> off, order_by |-> ob, order_dir |-> od]

Ok == [kind |-> "ok"]

\* a validate that lets limit 0 through
ValidateLimitOffByOne(q) ==
    IF q.order_by \notin AllowedCols THEN Raise("ValueError")
    ELSE IF q.order_dir \notin {"ASC", "DESC"} THEN Raise("ValueError")
    ELSE IF q.limit < 0 \/ q.limit > MaxLimit THEN Raise("ValueError")
    ELSE IF q.offset < 0 THEN Raise("ValueError")
    ELSE Ok

\* TradeQuery.validate
Validate(q) ==
    IF q.order_by \notin AllowedCols THEN Raise("ValueError")
    ELSE IF q.order_dir \notin {"ASC", "DESC"} THEN Raise("ValueError")
    ELSE IF q.limit <= 0 \/ q.limit > MaxLimit THEN Raise("ValueError")
    ELSE IF q.offset < 0 THEN Raise("ValueError")
    ELSE Ok

\* Python truthiness of an Optional[str]
Truthy(v) == v.kind # "none" /\ v.s # ""

\* the clause list and the parameter list after one "if ...: append" of the builder
AddIf(cond, acc, clause, param) ==
    IF cond THEN [clauses |-> Append(acc.clauses, clause),
                  params  |-> Append(acc.params, param)]
    ELSE acc

\* the builder's result: validation's error, the error of an encoder that
\* raised, or the joined clauses with their parameters
WhereAndParams(v, acc) ==
    IF v.kind = "error" THEN v
    ELSE IF \E i \in 1..Len(acc.params) : acc.params[i].kind = "error"
    THEN Raise("OverflowError")
    ELSE [kind |-> "ok",
          where |-> IF acc.clauses # <<>>
                    THEN " WHERE " \o Join(" AND ", acc.clauses) ELSE "",
          params |-> acc.params]

\* a builder that binds the comment without the wildcards
BuildWhereAndParamsNoWildcard(q, padYear) ==
    LET v  == Validate(q)
        a0 == [clauses |-> <<>>, params |-> <<>>]
        a1 == AddIf(q.trade_account_id # None, a0, "TradeAccountID = %s",
                    q.trade_account_id)
        a2 == AddIf(q.ticket # None, a1, "Ticket = %s", q.ticket)
        a3 == AddIf(Truthy(q.symbol), a2, "SymbolName = %s", q.symbol)
        a4 == AddIf(q.opened_from # None, a3, "OpenTime >= %s",
                    DatetimeToBigintHr(q.opened_from, padYear))
        a5 == AddIf(q.opened_to # None, a4, "OpenTime <= %s",
                    DatetimeToBigintHr(q.opened_to, padYear))
        a6 == AddIf(q.closed_from # None, a5, "CloseTime >= %s",
                    DatetimeToBigintHr(q.closed_from, padYear))
        a7 == AddIf(q.closed_to # None, a6, "CloseTime <= %s",
                    DatetimeToBigintHr(q.closed_to, padYear))
        a8 == AddIf(Truthy(q.comment_like), a7, "Comment LIKE %s", q.comment_like)
    IN  WhereAndParams(v, a8)

\* build_where_and_params; an encoder that raises ends the call
BuildWhereAndParams(q, padYear) ==
    LET v  == Validate(q)
        a0 == [clauses |-> <<>>, params |-> <<>>]
        a1 == AddIf(q.trade_account_id # None, a0, "TradeAccountID = %s",
                    q.trade_account_id)
        a2 == AddIf(q.ticket # None, a1, "Ticket = %s", q.ticket)
        a3 == AddIf(Truthy(q.symbol), a2, "SymbolName = %s", q.symbol)
        a4 == AddIf(q.opened_from # None, a3, "OpenTime >= %s",
                    DatetimeToBigintHr(q.opened_from, padYear))
        a5 == AddIf(q.opened_to # None, a4, "OpenTime <= %s",
                    DatetimeToBigintHr(q.opened_to, padYear))
        a6 == AddIf(q.closed_from # None, a5, "CloseTime >= %s",
                    DatetimeToBigintHr(q.closed_from, padYear))
        a7 == AddIf(q.closed_to # None, a6, "CloseTime <= %s",
                    DatetimeToBigintHr(q.closed_to, padYear))
        a8 == AddIf(Truthy(q.comment_like), a7, "Comment LIKE %s",
                    PyStr("%" \o q.comment_like.s \o "%"))
    IN  WhereAndParams(v, a8)

\* _opt_int
OptInt(v) ==
    IF v.kind = "none" THEN None
    ELSE IF v.kind = "int" THEN v
    ELSE IF IsDigit(Strip(v.s)) THEN PyInt(IntOfDigits(Strip(v.s)))
    ELSE Raise("ValueError")

\* _opt_str
OptStr(v) ==
    IF v.kind = "none" THEN None
    ELSE IF v.s # "" THEN PyStr(v.s) ELSE None

\* a raw row: the values of the columns the model follows (the numeric columns
\* bound for _opt_float are left out)
RawRow(id, tk, ot, ct, ex, cm, ts) ==
    [ID |-> id, Ticket |-> tk, OpenTime |-> ot, CloseTime |-> ct, Expiration |-> ex,
     Comment |-> cm, TimeStamp |-> ts]

\* the position of the first value that is a raised exception, 0 when none is
FirstError(vals) ==
    IF \E i \in 1..Len(vals) : vals[i].kind = "error"
    THEN CHOOSE i \in 1..Len(vals) :
            /\ vals[i].kind = "error"
            /\ \A j \in 1..(i - 1) : vals[j].kind # "error"
    ELSE 0

\* TradeRecord(...) of the converted fields, evaluated left to right: the first
\* conversion that raises ends the call
TradeRecordOf(fields, comment) ==
    IF FirstError(fields) # 0 THEN fields[FirstError(fields)]
    ELSE [kind |-> "record", id |-> fields[1], ticket |-> fields[2],
          open_time |-> fields[3], close_time |-> fields[4],
          expiration |-> fields[5], comment |-> comment, timestamp |-> fields[6]]

\* row_to_trade_record: the first field that cannot be converted raises
RowToTradeRecord(row) ==
    TradeRecordOf(<<IF row.ID.kind = "none" THEN Raise("TypeError") ELSE OptInt(row.ID),
                    OptInt(row.Ticket),
                    BigintHrToDatetime(row.OpenTime),
                    BigintHrToDatetime(row.CloseTime),
                    BigintHrToDatetime(row.Expiration),
                    BigintHrToDatetime(row.TimeStamp)>>,
                  OptStr(row.Comment))

\* the comprehension's calls of row_to_trade_record, row by row
MapEach(rows) == [i \in 1..Len(rows) |-> RowToTradeRecord(rows[i])]

\* the rows handed to row_to_trade_record before the comprehension ends
HandedOver(recs) == IF FirstError(recs) = 0 THEN Len(recs) ELSE FirstError(recs)

\* how many rows the comprehension hands to row_to_trade_record
MappedCount(rows) == HandedOver(MapEach(rows))

\* the list of records, or the exception of the first row that raises
ListOrError(recs) ==
    IF FirstError(recs) = 0 THEN [kind |-> "list", items |-> recs]
    ELSE recs[FirstError(recs)]

\* [row_to_trade_record(r) for r in rows]: a row that raises ends the list
MapRows(rows) == ListOrError(MapEach(rows))

(***************************************************************************)
(* fetch_trades, step by step: build, connect, execute and fetch, map and  *)
(* close.  The store answers with any rows it likes.                       *)
(***************************************************************************)
MaxFetched == 1

ColumnsSql == Join(", ", COLUMNS)

SelectSql(q, where_sql) ==
    "SELECT " \o ColumnsSql \o " FROM TradeHistories" \o where_sql
    \o " ORDER BY " \o q.order_by \o " " \o q.order_dir \o " LIMIT %s OFFSET %s"

NewDb == [connects |-> 0, open |-> FALSE, executed |-> <<>>]

OpenedFrom == Instant(DateTime(2023, 2, 9, 0, 0, 0, 0, TRUE, 0))
OpenedTo == Instant(DateTime(2023, 2, 10, 7, 0, 0, 999500, TRUE, 7))
ClosedFrom == Instant(DateTime(2023, 2, 9, 8, 43, 34, 1500, FALSE, 0))
ClosedTo == Instant(DateTime(1970, 1, 1, 0, 0, 0, 0, TRUE, 0))

\* limit, offset, order_by, order_dir inside the allowed ranges
ValidPagings ==
    {<<100, 0, "OpenTime", "ASC">>, <<1, 5, "ID", "DESC">>,
     <<10000, 0, "Ticket", "ASC">>, <<50, 1, "CloseTime", "DESC">>,
     <<2, 0, "TimeStamp", "ASC">>}

\* and with one of them, or all, outside
InvalidPagings ==
    {<<0, 0, "OpenTime", "ASC">>, <<10001, 0, "OpenTime", "ASC">>,
     <<-1, 0, "OpenTime", "ASC">>, <<100, -1, "OpenTime", "ASC">>,
     <<100, 0, "DROP TABLE", "ASC">>, <<100, 0, "id", "ASC">>,
     <<100, 0, "OpenTime", "asc">>, <<100, 0, "OpenTime", "ASC; DROP TABLE t">>,
     <<0, -1, "Comment", "">>}

\* every combination of filters under two pagings, every paging under three
\* combinations of filters
Queries ==
    {TradeQuery(acc, tk, sym, of, ot, cf, ct, cl, pg[1], pg[2], pg[3], pg[4]) :
        acc \in {None, PyInt("0"), PyInt("111")},
        tk \in {None, PyInt("3599795")},
        sym \in {None, PyStr(""), PyStr("EURUSD")},
        of \in {None, OpenedFrom}, ot \in {None, OpenedTo},
        cf \in {None, ClosedFrom}, ct \in {None, ClosedTo},
        cl \in {None, PyStr(""), PyStr("hedge")},
        pg \in {<<100, 0, "OpenTime", "ASC">>, <<1, 5, "ID", "DESC">>}}
    \cup
    {TradeQuery(f[1], f[2], f[3], f[4], f[5], f[6], f[7], f[8],
                pg[1], pg[2], pg[3], pg[4]) :
        f \in {<<None, None, None, None, None, None, None, None>>,
               <<PyInt("111"), None, PyStr("EURUSD"), OpenedFrom, OpenedTo, None,
                 None, None>>,
               <<PyInt("111"), PyInt("3599795"), PyStr("EURUSD"), OpenedFrom,
                 OpenedTo, ClosedFrom, ClosedTo, PyStr("hedge")>>},
        pg \in ValidPagings \cup InvalidPagings}

StoreRows ==
    {RawRow(PyStr("9209"), PyStr("3599795"), PyStr("20230209084334000"),
            PyStr("20230209090257000"), PyStr("19700101000000000"),
            PyStr("close hedge by #3599791"), PyStr("20230209090257000")),
     RawRow(PyInt("9210"), None, PyInt("20230209084334"), PyInt("0"), None,
            PyStr(""), PyInt("20230209084334001")),
     RawRow(PyInt("9211"), PyInt("7"), PyStr("2023-02-09"), None, None, None, None)}

RECURSIVE RowListsUpTo(_)
RowListsUpTo(n) ==
    IF n = 0 THEN {<<>>}
    ELSE LET shorter == RowListsUpTo(n - 1) IN
         shorter \cup {Append(rs, r) : rs \in {x \in shorter : Len(x) = n - 1},
                                       r \in StoreRows}

InitFetch ==
    /\ call = <<>>
    /\ arg = None
    /\ ret = <<>>
    /\ db = NewDb
    /\ pc = "idle"
    /\ run = [sql |-> "", params |-> <<>>, rows |-> <<>>, cols |-> {}, mapped |-> 0]
    /\ fs = [none |-> TRUE]

\* lines 263-269: build_where_and_params (validation first), the statement text,
\* limit and offset bound last
CallFetchTrades ==
    /\ pc = "idle"
    /\ \E q \in Queries, padYear \in BOOLEAN :
        LET built == BuildWhereAndParams(q, padYear) IN
        /\ call' = <<"fetch_trades">>
        /\ arg' = q
        /\ IF built.kind = "error"
           THEN /\ pc' = "raised"
                /\ ret' = <<built>>
                /\ run' = run
           ELSE /\ pc' = "built"
                /\ ret' = ret
                /\ run' = [run EXCEPT
                            !.sql = SelectSql(q, built.where),
                            !.params = built.params
                                       \o <<PyInt(Str(q.limit)), PyInt(Str(q.offset))>>]
    /\ UNCHANGED <<db, fs>>

\* mysql.connector.connect(**conn_params)
Connect ==
    /\ pc = "built"
    /\ db' = [db EXCEPT !.connects = @ + 1, !.open = TRUE]
    /\ pc' = "connected"
    /\ UNCHANGED <<call, arg, ret, run, fs>>

\* the connection is refused: the exception leaves the function
ConnectFails ==
    /\ pc = "built"
    /\ pc' = "raised"
    /\ ret' = <<Raise("DatabaseError")>>
    /\ UNCHANGED <<call, arg, db, run, fs>>

\* the store refuses the statement: finally closes the connection
ExecuteFails ==
    /\ pc = "connected"
    /\ db' = [db EXCEPT !.executed = Append(@, [sql |-> run.sql, params |-> run.params]),
                        !.open = FALSE]
    /\ pc' = "raised"
    /\ ret' = <<Raise("DatabaseError")>>
    /\ UNCHANGED <<call, arg, run, fs>>

\* cur.execute(sql, params); cur.fetchall()
ExecuteSelect ==
    /\ pc = "connected"
    /\ call = <<"fetch_trades">>
    /\ db' = [db EXCEPT !.executed = Append(@, [sql |-> run.sql, params |-> run.params])]
    /\ \E rows \in RowListsUpTo(MaxFetched) :
        run' = [run EXCEPT !.rows = rows, !.cols = REQUIRED_SET]
    /\ pc' = "fetched"
    /\ UNCHANGED <<call, arg, ret, fs>>

\* return [row_to_trade_record(r) for r in cur.fetchall()]; finally cnx.close()
ReturnRecords ==
    /\ pc = "fetched"
    /\ call = <<"fetch_trades">>
    /\ LET recs == MapRows(run.rows) IN
        /\ ret' = <<recs>>
        /\ pc' = IF recs.kind = "error" THEN "raised" ELSE "returned"
    /\ db' = [db EXCEPT !.open = FALSE]
    /\ run' = [run EXCEPT !.mapped = MappedCount(run.rows)]
    /\ UNCHANGED <<call, arg, fs>>

NextFetch ==
    \/ CallFetchTrades
    \/ Connect
    \/ ConnectFails
    \/ ExecuteSelect
    \/ ExecuteFails
    \/ ReturnRecords

SpecFetch == InitFetch /\ [][NextFetch]_vars

(***************************************************************************)
(* Claims about the query builder                                          *)
(***************************************************************************)
InRanges(q) ==
    /\ q.order_by \in {"ID", "OpenTime", "CloseTime", "TimeStamp", "Ticket"}
    /\ q.order_dir \in {"ASC", "DESC"}
    /\ q.limit \in 1..MaxLimit
    /\ q.offset >= 0

\* C7: a query whose order_by, order_dir, limit or offset is outside its range
\* fails validation before a connection is opened or a statement executed; a
\* query inside all four ranges passes validation.
C7_ValidationBeforeStore ==
    call = <<"fetch_trades">> =>
        /\ ~InRanges(arg) =>
            (pc = "raised" /\ ret = <<Raise("ValueError")>>
                /\ db.connects = 0 /\ db.executed = <<>>)
        /\ InRanges(arg) =>
            ~(pc = "raised" /\ ret = <<Raise("ValueError")>> /\ db.connects = 0)
        /\ (db.connects > 0 \/ db.executed # <<>>) => InRanges(arg)

C7_LimitTooLargeRejected ==
    /\ call = <<"fetch_trades">>
    /\ arg.limit = MaxLimit + 1 /\ arg.offset = 0
    /\ arg.order_by = "OpenTime" /\ arg.order_dir = "ASC"
    /\ pc = "raised"
    /\ db = NewDb

\* the eight filter fields in their fixed order: whether the field counts as set,
\* its predicate, its bound value
Slots(q, isSet(_)) ==
    <<[on |-> isSet(q.trade_account_id), text |-> "TradeAccountID = %s",
       val |-> q.trade_account_id],
      [on |-> isSet(q.ticket), text |-> "Ticket = %s", val |-> q.ticket],
      [on |-> isSet(q.symbol), text |-> "SymbolName = %s", val |-> q.symbol],
      [on |-> isSet(q.opened_from), text |-> "OpenTime >= %s",
       val |-> DatetimeToBigintHr(q.opened_from, TRUE)],
      [on |-> isSet(q.opened_to), text |-> "OpenTime <= %s",
       val |-> DatetimeToBigintHr(q.opened_to, TRUE)],
      [on |-> isSet(q.closed_from), text |-> "CloseTime >= %s",
       val |-> DatetimeToBigintHr(q.closed_from, TRUE)],
      [on |-> isSet(q.closed_to), text |-> "CloseTime <= %s",
       val |-> DatetimeToBigintHr(q.closed_to, TRUE)],
      [on |-> isSet(q.comment_like), text |-> "Comment LIKE %s",
       val |-> IF q.comment_like = None THEN None
               ELSE PyStr("%" \o q.comment_like.s \o "%")]>>

IsOn(slot) == slot.on

ExpectedWhere(q, isSet(_)) ==
    LET on == SelectSeq(Slots(q, isSet), IsOn) IN
    IF on = <<>> THEN ""
    ELSE " WHERE " \o Join(" AND ", [i \in 1..Len(on) |-> on[i].text])

ExpectedParams(q, isSet(_)) ==
    LET on == SelectSeq(Slots(q, isSet), IsOn) IN
    [i \in 1..Len(on) |-> on[i].val]
    \o <<PyInt(Str(q.limit)), PyInt(Str(q.offset))>>

\* the statement text: fixed fragments, the validated ordering, the predicates
ExpectedSql(q, isSet(_)) ==
    "SELECT ID, TradeAccountID, Ticket, SymbolName, Digits, Type, Quantity, State, "
    \o "OpenTime, OpenPrice, OpenRate, CloseTime, ClosePrice, CloseRate, StopLoss, "
    \o "TakeProfit, Expiration, Commission, CommissionAgent, Swap, Profit, Tax, "
    \o "Magic, Comment, TimeStamp FROM TradeHistories"
    \o ExpectedWhere(q, isSet)
    \o " ORDER BY " \o q.order_by \o " " \o q.order_dir \o " LIMIT %s OFFSET %s"

\* a field is populated when it holds any value
NotNone(v) == v # None

\* a field is populated when it holds a value, an empty string not counting
NotNoneNorEmpty(v) == v # None /\ (v.kind = "str" => v.s # "")

Built == call = <<"fetch_trades">> /\ pc \in {"built", "connected", "fetched", "returned"}

\* C10 as stated: one AND-joined predicate per populated filter field (one that
\* is not None), none for an unset one, in the fixed order; the parameters one
\* per predicate in that order, then limit, then offset; no value in the text.
C10_OnePredicatePerNonNullField ==
    Built => /\ run.sql = ExpectedSql(arg, NotNone)
             /\ run.params = ExpectedParams(arg, NotNone)

\* C10 as amended: the same, an empty symbol or comment substring counting as
\* unset.
C10_OnePredicatePerNonEmptyField ==
    /\ Built => /\ run.sql = ExpectedSql(arg, NotNoneNorEmpty)
                /\ run.params = ExpectedParams(arg, NotNoneNorEmpty)
    /\ \A i \in 1..Len(db.executed) :
        /\ db.executed[i].sql = ExpectedSql(arg, NotNoneNorEmpty)
        /\ db.executed[i].params = ExpectedParams(arg, NotNoneNorEmpty)

C10_AllFiltersBound ==
    /\ Built
    /\ pc = "connected"
    /\ Len(run.params) = 10
    /\ run.params[8] = PyStr("%hedge%")
    /\ run.params[5] = PyInt("20230210000000000")

(***************************************************************************)
(* RAW SQL mode (export_trade_histories.py)                                *)
(***************************************************************************)
StartsWith(s, prefix) == Len(s) >= Len(prefix) /\ SubSeq(s, 1, Len(prefix)) = prefix

\* s.find(sub) for a two-character sub: the 1-based position of its first
\* occurrence, 0 when there is none
Find2(s, sub) ==
    IF \E i \in 1..(Len(s) - 1) : SubSeq(s, i, i + 1) = sub
    THEN CHOOSE i \in 1..(Len(s) - 1) :
            /\ SubSeq(s, i, i + 1) = sub
            /\ \A j \in 1..(i - 1) : SubSeq(s, j, j + 1) # sub
    ELSE 0

\* s.find("\n")
FindNewline(s) ==
    IF \E i \in 1..Len(s) : CharAt(s, i) = "\n"
    THEN CHOOSE i \in 1..Len(s) :
            CharAt(s, i) = "\n" /\ \A j \in 1..(i - 1) : CharAt(s, j) # "\n"
    ELSE 0

RECURSIVE StripBlocks(_)
\* the first loop: while s.startswith("/*")
StripBlocks(s) ==
    IF StartsWith(s, "/*") THEN
        LET end == Find2(s, "*/") IN
        IF end = 0 THEN s
        ELSE StripBlocks(LStrip(SubSeq(s, end + 2, Len(s))))
    ELSE s

RECURSIVE StripLines(_)
\* the second loop: while s.startswith("--")
StripLines(s) ==
    IF StartsWith(s, "--") THEN
        LET nl == FindNewline(s) IN
        StripLines(LStrip(IF nl # 0 THEN SubSeq(s, nl + 1, Len(s)) ELSE ""))
    ELSE s

\* _strip_leading_comments
StripLeadingComments(sql) == StripLines(StripBlocks(LStrip(sql)))

\* is_select_only; s[:6] of a shorter text is the whole text
IsSelectOnly(sql) ==
    LET s == StripLeadingComments(sql) IN
    Lower(SubSeq(s, 1, IF Len(s) < 6 THEN Len(s) ELSE 6)) = "select"

\* the code point order of the letters of the column names
CharOrd(c) ==
    CHOOSE i \in 1..52 : CharAt(UpperChars \o LowerChars, i) = c

RECURSIVE StrLess(_, _)
\* a < b for two strings
StrLess(a, b) ==
    IF Len(b) = 0 THEN FALSE
    ELSE IF Len(a) = 0 THEN TRUE
    ELSE IF CharAt(a, 1) = CharAt(b, 1)
    THEN StrLess(SubSeq(a, 2, Len(a)), SubSeq(b, 2, Len(b)))
    ELSE CharOrd(CharAt(a, 1)) < CharOrd(CharAt(b, 1))

RECURSIVE Sorted(_)
\* sorted(names)
Sorted(names) ==
    IF names = {} THEN <<>>
    ELSE LET least == CHOOSE x \in names : \A y \in names \ {x} : StrLess(x, y)
         IN  <<least>> \o Sorted(names \ {least})

\* raise ValueError("...: " + ", ".join(sorted(missing)))
SchemaMismatch(missing) ==
    [kind |-> "error", error |-> "ValueError", names |-> Sorted(missing),
     message |-> Join(", ", Sorted(missing))]

(***************************************************************************)
(* fetch_trades_by_sql, step by step: guard, connect, execute and fetch,   *)
(* check the columns, map and close.                                       *)
(***************************************************************************)
MaxSegs == 3

Segments ==
    {"/*c*/", "/*/", "--c\n", "--c", " ", "SeLeCT 1", "select*/", "DELETE FROM t"}

RECURSIVE Concats(_)
\* the texts made of at most n segments
Concats(n) ==
    IF n = 0 THEN {""}
    ELSE LET shorter == Concats(n - 1) IN
         shorter \cup {a \o b : a \in shorter, b \in Segments}

SqlTexts ==
    Concats(MaxSegs)
    \cup {"SELECT id FROM t", "/* export */ SELECT id FROM t", "UPDATE t SET x=1",
          "selec", "SELECTED", "\n\t select 1", "/*c", "/*c SELECT 1",
          "/*c*/ /*c SELECT 1", "--c\n/*c SELECT 1"}

\* the column sets a statement can come back with
ColumnAnswers ==
    {REQUIRED_SET, REQUIRED_SET \cup {"Extra"}, REQUIRED_SET \ {"Ticket", "Digits"},
     (REQUIRED_SET \ {"ID"}) \cup {"id"}}

\* the missing columns, the wrong way round
MissingReversed(cols) == cols \ REQUIRED_SET

\* missing = REQUIRED_SET - cols
Missing(cols) == REQUIRED_SET \ cols

\* lines 303-304: the guard
CallFetchTradesBySql ==
    /\ pc = "idle"
    /\ \E sql \in SqlTexts :
        /\ call' = <<"fetch_trades_by_sql">>
        /\ arg' = sql
        /\ IF ~IsSelectOnly(sql)
           THEN /\ pc' = "raised"
                /\ ret' = <<Raise("ValueError")>>
                /\ run' = run
           ELSE /\ pc' = "built"
                /\ ret' = ret
                /\ run' = [run EXCEPT !.sql = sql]
    /\ UNCHANGED <<db, fs>>

\* cur.execute(sql); rows = cur.fetchall()
ExecuteRaw ==
    /\ pc = "connected"
    /\ call = <<"fetch_trades_by_sql">>
    /\ db' = [db EXCEPT !.executed = Append(@, [sql |-> run.sql, params |-> run.params])]
    /\ \E rows \in RowListsUpTo(MaxFetched), cols \in ColumnAnswers :
        run' = [run EXCEPT !.rows = rows, !.cols = cols]
    /\ pc' = "fetched"
    /\ UNCHANGED <<call, arg, ret, fs>>

\* lines 310-317: no rows, or a column missing; finally cnx.close()
CheckColumns ==
    /\ pc = "fetched"
    /\ call = <<"fetch_trades_by_sql">>
    /\ IF run.rows = <<>>
       THEN /\ ret' = <<[kind |-> "list", items |-> <<>>]>>
            /\ pc' = "returned"
            /\ db' = [db EXCEPT !.open = FALSE]
       ELSE IF Missing(run.cols) # {}
       THEN /\ ret' = <<SchemaMismatch(Missing(run.cols))>>
            /\ pc' = "raised"
            /\ db' = [db EXCEPT !.open = FALSE]
       ELSE /\ ret' = ret
            /\ pc' = "checked"
            /\ db' = db
    /\ UNCHANGED <<call, arg, run, fs>>

\* line 318: return [row_to_trade_record(r) for r in rows]; finally cnx.close()
MapReturn ==
    /\ pc = "checked"
    /\ LET recs == MapRows(run.rows) IN
        /\ ret' = <<recs>>
        /\ pc' = IF recs.kind = "error" THEN "raised" ELSE "returned"
    /\ db' = [db EXCEPT !.open = FALSE]
    /\ run' = [run EXCEPT !.mapped = MappedCount(run.rows)]
    /\ UNCHANGED <<call, arg, fs>>

NextRaw ==
    \/ CallFetchTradesBySql
    \/ Connect
    \/ ConnectFails
    \/ ExecuteRaw
    \/ ExecuteFails
    \/ CheckColumns
    \/ MapReturn

SpecRaw == InitFetch /\ [][NextRaw]_vars

(***************************************************************************)
(* Claims about the raw-query guard                                        *)
(***************************************************************************)
\* the position of the "*/" that closes the block comment opened at 1..2
BlockEnd(s) ==
    IF \E i \in 3..(Len(s) - 1) : SubSeq(s, i, i + 1) = "*/"
    THEN CHOOSE i \in 3..(Len(s) - 1) :
            /\ SubSeq(s, i, i + 1) = "*/"
            /\ \A j \in 3..(i - 1) : SubSeq(s, j, j + 1) # "*/"
    ELSE 0

RECURSIVE WithoutLeadingComments(_)
\* the text with every leading comment removed, block and line comments in any
\* order, as often as one stands at the start
WithoutLeadingComments(sql) ==
    LET s == LStrip(sql) IN
    IF StartsWith(s, "/*") /\ BlockEnd(s) # 0
    THEN WithoutLeadingComments(SubSeq(s, BlockEnd(s) + 2, Len(s)))
    ELSE IF StartsWith(s, "--")
    THEN IF FindNewline(s) = 0 THEN ""
         ELSE WithoutLeadingComments(SubSeq(s, FindNewline(s) + 1, Len(s)))
    ELSE s

BeginsWithSelect(sql) ==
    LET s == WithoutLeadingComments(sql) IN
    Len(s) >= 6 /\ Lower(SubSeq(s, 1, 6)) = "select"

RejectedByGuard ==
    pc = "raised" /\ ret = <<Raise("ValueError")>> /\ db = NewDb

\* C8: is_select_only accepts a text iff, with every leading comment removed
\* (block and line comments, any number, any order), its first six characters
\* are SELECT in any case; every other text makes fetch_trades_by_sql fail before
\* a connection is opened or a statement executed.
C8_GuardAcceptsIffSelect ==
    call = <<"fetch_trades_by_sql">> => (RejectedByGuard <=> ~BeginsWithSelect(arg))

\* The refusals of the guard never reach the store.
C8_RefusedNeverReachesStore ==
    (call = <<"fetch_trades_by_sql">> /\ ~IsSelectOnly(arg)) => RejectedByGuard

Finished ==
    /\ call = <<"fetch_trades_by_sql">>
    /\ pc \in {"returned", "raised"}
    /\ Len(db.executed) = 1
    /\ ret # <<Raise("DatabaseError")>>

\* C9: zero rows give an empty list whatever the columns; with a row and a
\* required column missing the call fails naming exactly the missing columns,
\* before any row reaches the mapper; with none missing every row is mapped.
C9_SchemaCheckedBeforeMapping ==
    /\ Finished =>
        /\ run.rows = <<>> => (pc = "returned" /\ ret = <<[kind |-> "list", items |-> <<>>]>>)
        /\ (run.rows # <<>> /\ ~(REQUIRED_SET \subseteq run.cols)) =>
            /\ pc = "raised"
            /\ ret[1].kind = "error"
            /\ {ret[1].names[i] : i \in 1..Len(ret[1].names)} = REQUIRED_SET \ run.cols
            /\ Len(ret[1].names) = Cardinality(REQUIRED_SET \ run.cols)
            /\ run.mapped = 0
        /\ (run.rows # <<>> /\ REQUIRED_SET \subseteq run.cols) =>
            /\ ret[1].kind = "list" =>
                /\ Len(ret[1].items) = Len(run.rows)
                /\ \A i \in 1..Len(run.rows) :
                    ret[1].items[i] = RowToTradeRecord(run.rows[i])
                /\ run.mapped = Len(run.rows)
            /\ ret[1].kind = "error" =>
                \E i \in 1..Len(run.rows) : ret[1] = RowToTradeRecord(run.rows[i])
    /\ (call = <<"fetch_trades_by_sql">> /\ run.mapped > 0) => REQUIRED_SET \subseteq run.cols

C9_MissingTicketAndDigits ==
    /\ Finished
    /\ run.rows # <<>>
    /\ run.cols = REQUIRED_SET \ {"Ticket", "Digits"}
    /\ ret[1].kind = "error"
    /\ ret[1].message = "Digits, Ticket"


(***************************************************************************)
(* The CSV filter on files: filter_csv and inplace_filter                  *)
(*                                                                         *)
(* A file is absent or holds lines; a line is the sequence of its field    *)
(* texts and the first line is the header.  read_csv infers the type of a  *)
(* column chunk by chunk and to_csv renders the typed cells again.         *)
(***************************************************************************)
Absent == [kind |-> "absent"]
File(lines) == [kind |-> "file", lines |-> lines]

\* Path.exists()
Exists(files, p) == files[p].kind = "file"

\* the position of the last "." of a file name, 0 when there is none
LastDot(name) ==
    IF \E i \in 1..Len(name) : CharAt(name, i) = "."
    THEN CHOOSE i \in 1..Len(name) :
            CharAt(name, i) = "." /\ \A j \in (i + 1)..Len(name) : CharAt(name, j) # "."
    ELSE 0

\* Path.stem, and Path.with_suffix("") of a name without a directory
Stem(name) ==
    IF LastDot(name) > 1 /\ LastDot(name) < Len(name)
    THEN SubSeq(name, 1, LastDot(name) - 1)
    ELSE name

\* lines 120-123: <name>.filtered.csv next to the input
AutoOutput(input_path) == Stem(input_path) \o ".filtered.csv"

\* an in-place run that writes straight to the input path
TmpOutInPlace(input_path) == input_path

\* line 180: the output inside the fresh temporary directory
TmpOut(input_path) == "tmp/" \o Stem(input_path) \o ".filtered.csv"

\* the strings read_csv takes for a missing value (na_values is None)
NaTexts ==
    {"", "#N/A", "#N/A N/A", "#NA", "-1.#IND", "-1.#QNAN", "-NaN", "-nan", "1.#IND",
     "1.#QNAN", "<NA>", "N/A", "NA", "NULL", "NaN", "None", "n/a", "nan", "null"}

RECURSIVE NormFloat(_)
\* a float without the trailing zeros of its fraction, as repr prints it
NormFloat(cell) ==
    IF cell.e > 1 /\ cell.m % 10 = 0
    THEN NormFloat(FloatCell(cell.m \div 10, cell.e - 1))
    ELSE cell

\* a number as a float64 cell
ToFloat(cell) ==
    IF cell.t = "int" THEN FloatCell(cell.m * 10, 1)
    ELSE IF cell.t = "float" THEN NormFloat(cell)
    ELSE cell

\* the dtype read_csv infers for the texts of one column of one chunk
ColumnDtype(texts) ==
    IF Len(texts) = 0 THEN "object"
    ELSE IF \A i \in 1..Len(texts) :
                texts[i] \notin NaTexts /\ ParseNumber(texts[i]).t = "int"
    THEN "int64"
    ELSE IF \A i \in 1..Len(texts) :
                texts[i] \in NaTexts \/ ParseNumber(texts[i]).t # "nan"
    THEN "float64"
    ELSE "object"

\* one field of a column with that dtype
ParseCell(text, dtype) ==
    IF text \in NaTexts THEN NaN
    ELSE IF dtype = "int64" THEN ParseNumber(text)
    ELSE IF dtype = "float64" THEN ToFloat(ParseNumber(text))
    ELSE StrCell(text)

ColumnTexts(lines, j) == [i \in 1..Len(lines) |-> lines[i][j]]

ColumnIndex(cols, c) == CHOOSE j \in 1..Len(cols) : cols[j] = c

\* the frame read_csv yields for these data lines under this header
ParseChunk(cols, lines) ==
    DataFrame(cols,
        [i \in 1..Len(lines) |->
            [c \in {cols[j] : j \in 1..Len(cols)} |->
                ParseCell(lines[i][ColumnIndex(cols, c)],
                          ColumnDtype(ColumnTexts(lines, ColumnIndex(cols, c))))]])

\* to_csv of one cell: NaN is the empty field
RenderCell(cell) == AsString(cell)

\* to_csv(index=False) of the rows of a frame
RenderLines(df) ==
    [i \in 1..Len(df.rows) |->
        [j \in 1..Len(df.columns) |-> RenderCell(df.rows[i][df.columns[j]])]]

\* what to_csv(mode="a", header=...) appends
Appended(df, header) == (IF header THEN <<df.columns>> ELSE <<>>) \o RenderLines(df)

\* the lines of a file, none when it does not exist yet
LinesOf(file) == IF file.kind = "file" THEN file.lines ELSE <<>>

Min(a, b) == IF a <= b THEN a ELSE b

\* the data lines the reader hands out next: at most chunksize of them
ChunkLines(src, pos, chunksize) ==
    SubSeq(src, pos + 2, Min(pos + 1 + chunksize, Len(src)))

(***************************************************************************)
(* filter_csv and inplace_filter, step by step.  The input file holds any  *)
(* table of up to MaxRows rows (or is empty, or absent); every read, write *)
(* and swap may fail.                                                      *)
(***************************************************************************)
MaxRows == 3
MaxChunkSize == 2

InputPath == "in.csv"
OutPath == "out.csv"

Paths == {InputPath, OutPath, AutoOutput(InputPath), TmpOut(InputPath)}

\* the magic and the comment text of a data line
RowTexts ==
    {<<"0", "filled">>, <<"5", " Canceled ">>, <<"5", "filled">>, <<"", "NA">>,
     <<"0.0", "">>}

\* data line i under these columns
LineOf(cols, i, texts) ==
    [j \in 1..Len(cols) |->
        IF cols[j] = "magic" THEN texts[1]
        ELSE IF cols[j] = "comment" THEN texts[2]
        ELSE Str(i)]

\* what an earlier run left at the explicit output path
StaleFile == File(<<<<"id", "magic">>, <<"9", "9">>>>)

InitCsv ==
    /\ call = <<>>
    /\ arg = None
    /\ ret = <<>>
    /\ db = NewDb
    /\ pc = "idle"
    /\ run = [none |-> TRUE]
    /\ \E cols \in ColumnLists, n \in 0..MaxRows :
        \E texts \in [1..n -> RowTexts] :
            \E f \in {Absent, File(<<>>),
                      File(<<cols>> \o [i \in 1..n |-> LineOf(cols, i, texts[i])])} :
                fs = [p \in Paths |->
                        IF p = InputPath THEN f
                        ELSE IF p = OutPath THEN StaleFile
                        ELSE Absent]

\* the locals of filter_csv at its entry (lines 129-131), with the content the
\* input path had when the call was made
NewRun(input_path, output_path, chunksize) ==
    [input_path |-> input_path, output_path |-> output_path, chunksize |-> chunksize,
     orig |-> fs[input_path], src |-> <<>>, pos |-> 0, first |-> TRUE, chunk |-> None,
     total_in |-> 0, total_out |-> 0, wrote_header |-> FALSE]

\* lines 179-188: inplace_filter calls filter_csv with the temporary output
CallInplaceFilter ==
    /\ pc = "idle"
    /\ \E n \in 1..MaxChunkSize :
        /\ arg' = [input_path |-> InputPath, output_path |-> None, chunksize |-> n]
        /\ run' = NewRun(InputPath, PyStr(TmpOut(InputPath)), n)
    /\ call' = <<"inplace_filter">>
    /\ pc' = "entered"
    /\ UNCHANGED <<ret, db, fs>>

\* main calls filter_csv with the output path the caller gave, or none
CallFilterCsv ==
    /\ pc = "idle"
    /\ \E n \in 1..MaxChunkSize, out \in {None, PyStr(OutPath), PyStr(InputPath)} :
        /\ arg' = [input_path |-> InputPath, output_path |-> out, chunksize |-> n]
        /\ run' = NewRun(InputPath, out, n)
    /\ call' = <<"filter_csv">>
    /\ pc' = "entered"
    /\ UNCHANGED <<ret, db, fs>>

\* leaving "with tempfile.TemporaryDirectory()": the directory and the
\* temporary output in it are removed
Unwind(files) ==
    IF call = <<"inplace_filter">>
    THEN [files EXCEPT ![run.output_path.s] = Absent]
    ELSE files

\* an exception leaves the call
Raises(e, files) ==
    /\ pc' = "raised"
    /\ ret' = <<Raise(e)>>
    /\ fs' = Unwind(files)

\* lines 117-123: the input must exist; the default output path
CheckInput ==
    /\ pc = "entered"
    /\ IF ~Exists(fs, run.input_path)
       THEN /\ Raises("FileNotFoundError", fs)
            /\ run' = run
       ELSE /\ pc' = "checked"
            /\ run' = [run EXCEPT !.output_path =
                          IF @ = None THEN PyStr(AutoOutput(run.input_path)) ELSE @]
            /\ UNCHANGED <<ret, fs>>
    /\ UNCHANGED <<call, arg, db>>

\* lines 134-135: if output_path.exists(): output_path.unlink()
UnlinkOutput ==
    /\ pc = "checked"
    /\ fs' = IF Exists(fs, run.output_path.s)
             THEN [fs EXCEPT ![run.output_path.s] = Absent]
             ELSE fs
    /\ pc' = "cleared"
    /\ UNCHANGED <<call, arg, ret, db, run>>

\* lines 137-149: read_csv opens the file and reads the header
OpenReader ==
    /\ pc = "cleared"
    /\ IF ~Exists(fs, run.input_path) \/ fs[run.input_path].lines = <<>>
       THEN /\ Raises("RuntimeError", fs)
            /\ run' = run
       ELSE /\ pc' = "reading"
            /\ run' = [run EXCEPT !.src = fs[run.input_path].lines]
            /\ UNCHANGED <<ret, fs>>
    /\ UNCHANGED <<call, arg, db>>

\* read_csv fails on a file that exists (encoding, separator)
OpenReaderFails ==
    /\ pc = "cleared"
    /\ Exists(fs, run.input_path)
    /\ Raises("RuntimeError", fs)
    /\ UNCHANGED <<call, arg, db, run>>

\* the rows the next chunk takes
Taken(r) == Min(r.pos + r.chunksize, Len(r.src) - 1) - r.pos

\* lines 151-152: the next chunk of the reader; a file with a header only
\* gives one empty chunk
ReadChunk ==
    /\ pc = "reading"
    /\ IF run.pos = Len(run.src) - 1 /\ ~run.first
       THEN /\ pc' = "exhausted"
            /\ run' = run
       ELSE /\ pc' = "chunk"
            /\ run' = [run EXCEPT
                        !.chunk = ParseChunk(run.src[1],
                                    ChunkLines(run.src, run.pos, run.chunksize)),
                        !.pos = @ + Taken(run),
                        !.first = FALSE,
                        !.total_in = @ + Taken(run)]
    /\ UNCHANGED <<call, arg, ret, db, fs>>

\* the reader fails on the lines of the next chunk
ReadFails ==
    /\ pc = "reading"
    /\ run.pos < Len(run.src) - 1
    /\ Raises("ParserError", fs)
    /\ UNCHANGED <<call, arg, db, run>>

\* lines 153-161 for the filtered chunk: KeyError, or count and append
AppendFiltered(out) ==
    IF out.kind = "error"
    THEN /\ Raises("KeyError", fs)
         /\ run' = run
    ELSE /\ fs' = [fs EXCEPT ![run.output_path.s] =
                        File(LinesOf(@) \o Appended(out, ~run.wrote_header))]
         /\ run' = [run EXCEPT !.total_out = @ + Len(out.rows),
                               !.wrote_header = TRUE,
                               !.chunk = None]
         /\ pc' = "reading"
         /\ ret' = ret

FilterAndAppend ==
    /\ pc = "chunk"
    /\ AppendFiltered(FilterChunk(run.chunk))
    /\ UNCHANGED <<call, arg, db>>

\* line 160 fails: nothing, or only the first lines, reached the output file
AppendBroken(out) ==
    /\ out.kind # "error"
    /\ run' = [run EXCEPT !.total_out = @ + Len(out.rows)]
    /\ \/ Raises("OSError", fs)
       \/ \E k \in 0..Len(Appended(out, ~run.wrote_header)) :
            Raises("OSError",
                   [fs EXCEPT ![run.output_path.s] =
                        File(LinesOf(@)
                             \o SubSeq(Appended(out, ~run.wrote_header), 1, k))])

AppendFails ==
    /\ pc = "chunk"
    /\ AppendBroken(FilterChunk(run.chunk))
    /\ UNCHANGED <<call, arg, db>>

\* lines 163-167: filter_csv returns the output path
ReturnOutputPath ==
    /\ pc = "exhausted"
    /\ IF call = <<"filter_csv">>
       THEN /\ pc' = "returned"
            /\ ret' = <<run.output_path>>
       ELSE /\ pc' = "filtered"
            /\ ret' = ret
    /\ UNCHANGED <<call, arg, db, run, fs>>

\* lines 190-192: os.replace(out, input_path), then the directory is removed
Replace ==
    /\ pc = "filtered"
    /\ Exists(fs, run.output_path.s)
    /\ fs' = [fs EXCEPT ![run.input_path] = fs[run.output_path.s],
                        ![run.output_path.s] = Absent]
    /\ ret' = <<PyStr(run.input_path)>>
    /\ pc' = "returned"
    /\ UNCHANGED <<call, arg, db, run>>

\* os.replace fails (the temporary directory is on another file system, the
\* target is not writable): nothing is moved
ReplaceFails ==
    /\ pc = "filtered"
    /\ Raises("OSError", fs)
    /\ UNCHANGED <<call, arg, db, run>>

NextCsv ==
    \/ CallInplaceFilter
    \/ CallFilterCsv
    \/ CheckInput
    \/ UnlinkOutput
    \/ OpenReader
    \/ OpenReaderFails
    \/ ReadChunk
    \/ ReadFails
    \/ FilterAndAppend
    \/ AppendFails
    \/ ReturnOutputPath
    \/ Replace
    \/ ReplaceFails

SpecCsv == InitCsv /\ [][NextCsv]_vars

(***************************************************************************)
(* Claims about in-place filtering                                         *)
(***************************************************************************)
\* the text of column c in a data line, "" when the table has no such column
FieldOf(cols, line, c) ==
    IF \E j \in 1..Len(cols) : cols[j] = c THEN line[ColumnIndex(cols, c)] ELSE ""

\* the line's magic reads as a number equal to 0
TextIsZero(text) ==
    text \notin NaTexts /\ ParseNumber(text).t # "nan" /\ ParseNumber(text).m = 0

\* the line's comment, trimmed and lower-cased, is a cancellation token
TextIsCancelled(text) ==
    text \notin NaTexts /\ Lower(Strip(text)) \in CANCELLED_TOKENS

LineDropped(cols, line) ==
    \/ TextIsZero(FieldOf(cols, line, "magic"))
    \/ TextIsCancelled(FieldOf(cols, line, "comment"))

RECURSIVE KeptIds(_, _)
\* the ids (first field) of the data lines the rules keep, in their order
KeptIds(cols, lines) ==
    IF lines = <<>> THEN <<>>
    ELSE (IF LineDropped(cols, lines[1]) THEN <<>> ELSE <<lines[1][1]>>)
         \o KeptIds(cols, Tail(lines))

IdsOf(lines) == [i \in 1..Len(lines) |-> lines[i][1]]

\* the file is the complete filtered form of the original: its header, then
\* exactly the kept lines in their order, none of them one the rules drop
CompletelyFiltered(file, orig) ==
    /\ file.kind = "file"
    /\ orig.kind = "file"
    /\ Len(file.lines) >= 1
    /\ file.lines[1] = orig.lines[1]
    /\ IdsOf(Tail(file.lines)) = KeptIds(orig.lines[1], Tail(orig.lines))
    /\ \A i \in 2..Len(file.lines) : ~LineDropped(file.lines[1], file.lines[i])

\* C6: in in-place mode the file at the original path holds its original
\* content in every state before the call has returned, so also after every
\* failure (missing magic column, read error, write error, failed swap); when
\* the call has returned, the whole input has been read and the path holds the
\* completely filtered output.  No state has a partially filtered file there.
C6_InplaceSwapsOnlyCompleteOutput ==
    call = <<"inplace_filter">> =>
        /\ pc # "returned" => fs[run.input_path] = run.orig
        /\ pc = "returned" =>
            /\ run.pos = Len(run.orig.lines) - 1
            /\ run.total_in = Len(run.orig.lines) - 1
            /\ run.total_out = Len(fs[run.input_path].lines) - 1
            /\ CompletelyFiltered(fs[run.input_path], run.orig)
            /\ ~Exists(fs, TmpOut(run.input_path))

\* an in-place run over three chunks has returned, with a line dropped and a
\* line kept
C6_SwappedAfterThreeChunks ==
    /\ call = <<"inplace_filter">>
    /\ pc = "returned"
    /\ run.chunksize = 1
    /\ Len(run.orig.lines) = 4
    /\ Len(fs[run.input_path].lines) \in {2, 3}

\* an in-place run failed while appending the second chunk: the first chunk had
\* been written to the temporary output, the original is untouched
C6_FailedAfterFirstChunk ==
    /\ call = <<"inplace_filter">>
    /\ pc = "raised"
    /\ ret = <<Raise("OSError")>>
    /\ run.wrote_header
    /\ run.pos = 2
    /\ fs[run.input_path] = run.orig


(***************************************************************************)
(* The record mapper and TradeRecord.is_closed                             *)
(***************************************************************************)
\* the fields two datetimes are compared by, most significant first
DtTuple(dt) ==
    <<dt.year, dt.month, dt.day, dt.hour, dt.minute, dt.second, dt.microsecond>>

RECURSIVE TupleGe(_, _)
\* a >= b for two tuples of the same length
TupleGe(a, b) ==
    IF a = <<>> THEN TRUE
    ELSE IF a[1] # b[1] THEN a[1] > b[1]
    ELSE TupleGe(Tail(a), Tail(b))

\* an is_closed that wants the close strictly after the open
IsClosedStrict(rec) ==
    IF rec.open_time = None \/ rec.close_time = None THEN FALSE
    ELSE rec.close_time # rec.open_time
         /\ TupleGe(DtTuple(rec.close_time.dt), DtTuple(rec.open_time.dt))

\* TradeRecord.is_closed: close_time >= open_time of two datetimes in UTC
IsClosed(rec) ==
    IF rec.open_time = None \/ rec.close_time = None THEN FALSE
    ELSE TupleGe(DtTuple(rec.close_time.dt), DtTuple(rec.open_time.dt))

\* the raw values a temporal column holds
TimeValues ==
    {None, PyInt("0"), PyStr("19700101000000000"), PyStr(" "),
     PyStr("19700101000000"), PyStr("19700101000000001"),
     PyStr("20230209084334000"), PyStr(" 20230209084334000 "),
     PyInt("20230209084334"), PyStr("20230209084334001"),
     PyStr("20230209090257000"), PyStr("20230208235959999"),
     PyStr("20221231235959000"), PyStr("2023-02-09")}

ExpirationValues == {None, PyStr("19700101000000000"), PyStr("20230301000000000")}

IdValues == {PyStr("9209"), PyInt("9210"), None}

InitMap ==
    /\ call = <<>>
    /\ \E id \in IdValues, ot \in TimeValues, ct \in TimeValues, ex \in ExpirationValues :
        arg = RawRow(id, PyInt("3599795"), ot, ct, ex, PyStr("close hedge by #3599791"),
                     PyStr("20230209090257000"))
    /\ ret = <<>>
    /\ db = NewDb
    /\ pc = "row"
    /\ run = [none |-> TRUE]
    /\ fs = [none |-> TRUE]

\* the record of the row, or the exception of the first field that raises
MapOutcome(rec) ==
    /\ ret' = <<rec>>
    /\ pc' = IF rec.kind = "error" THEN "raised" ELSE "mapped"

CallRowToTradeRecord ==
    /\ pc = "row"
    /\ call' = <<"row_to_trade_record">>
    /\ MapOutcome(RowToTradeRecord(arg))
    /\ UNCHANGED <<arg, db, run, fs>>

\* the property is_closed read from the record
GetIsClosed ==
    /\ pc = "mapped"
    /\ call' = <<"is_closed">>
    /\ ret' = <<ret[1], IsClosed(ret[1])>>
    /\ pc' = "read"
    /\ UNCHANGED <<arg, db, run, fs>>

NextMap ==
    \/ CallRowToTradeRecord
    \/ GetIsClosed

SpecMap == InitMap /\ [][NextMap]_vars

(***************************************************************************)
(* Claims about the record mapper                                          *)
(***************************************************************************)
\* the days from 0001-01-01 to the first day of the year
DaysBeforeYear(y) ==
    365 * (y - 1) + ((y - 1) \div 4) - ((y - 1) \div 100) + ((y - 1) \div 400)

RECURSIVE DaysBeforeMonth(_, _)
DaysBeforeMonth(y, m) ==
    IF m = 1 THEN 0 ELSE DaysBeforeMonth(y, m - 1) + DaysInMonth(y, m - 1)

\* the day of an instant, counted from 0001-01-01
DayNumber(dt) == DaysBeforeYear(dt.year) + DaysBeforeMonth(dt.year, dt.month) + dt.day

\* the milliseconds of an instant since its day began
MsOfDay(dt) ==
    ((dt.hour * 60 + dt.minute) * 60 + dt.second) * 1000 + (dt.microsecond \div 1000)

\* instant c is not earlier than instant o on the time line
NotEarlier(c, o) ==
    \/ DayNumber(c) > DayNumber(o)
    \/ /\ DayNumber(c) = DayNumber(o)
       /\ \/ MsOfDay(c) > MsOfDay(o)
          \/ MsOfDay(c) = MsOfDay(o) /\ c.microsecond % 1000 >= o.microsecond % 1000

\* C11: for every row the mapper maps, the four temporal fields are the decode
\* results of OpenTime, CloseTime, Expiration and TimeStamp (a sentinel
\* Expiration gives null); is_closed is true exactly when OpenTime and CloseTime
\* both decode to instants and the close instant is not earlier than the open
\* instant, and false whenever either is absent or a sentinel.
C11_IsClosedIffBothPresentAndOrdered ==
    pc \in {"mapped", "read"} =>
        /\ ret[1].open_time = BigintHrToDatetime(arg.OpenTime)
        /\ ret[1].close_time = BigintHrToDatetime(arg.CloseTime)
        /\ ret[1].expiration = BigintHrToDatetime(arg.Expiration)
        /\ ret[1].timestamp = BigintHrToDatetime(arg.TimeStamp)
        /\ IsAbsentValue(arg.Expiration) => ret[1].expiration = None
        /\ pc = "read" =>
            /\ ret[2] <=> /\ ret[1].open_time.kind = "datetime"
                          /\ ret[1].close_time.kind = "datetime"
                          /\ NotEarlier(ret[1].close_time.dt, ret[1].open_time.dt)
            /\ (IsAbsentValue(arg.OpenTime) \/ IsAbsentValue(arg.CloseTime)) => ~ret[2]

\* the sample row: opened 08:43:34, closed 09:02:57, sentinel expiration
C11_SampleRowClosed ==
    /\ pc = "read"
    /\ arg.OpenTime = PyStr("20230209084334000")
    /\ arg.CloseTime = PyStr("20230209090257000")
    /\ arg.Expiration = PyStr("19700101000000000")
    /\ ret[1].expiration = None
    /\ ret[2] = TRUE

\* a row closed on the day before it was opened, at a later time of day
C11_ClosedBeforeOpened ==
    /\ pc = "read"
    /\ arg.OpenTime = PyStr("20230209084334000")
    /\ arg.CloseTime = PyStr("20230208235959999")
    /\ ret[2] = FALSE


(***************************************************************************)
(* Claims about chunking in filter_csv                                     *)
(***************************************************************************)
RECURSIVE OutputFrom(_, _, _, _)
\* the lines the loop of filter_csv appends from data line pos + 1 on, reading
\* chunks of chunksize lines; first tells that no chunk has been read yet
OutputFrom(src, pos, chunksize, first) ==
    IF pos = Len(src) - 1 /\ ~first THEN <<>>
    ELSE Appended(FilterChunk(ParseChunk(src[1], ChunkLines(src, pos, chunksize))), first)
         \o OutputFrom(src, Min(pos + chunksize, Len(src) - 1), chunksize, FALSE)

\* the output file of a run of filter_csv over these lines with this chunk size
OutputOfRun(src, chunksize) == OutputFrom(src, 0, chunksize, TRUE)

\* a call of filter_csv has returned its output path
FilterCsvReturned == call = <<"filter_csv">> /\ pc = "returned"

\* C12 (rows and counters): a successful filter_csv run ends with the header
\* once, then the kept rows (by id) in input order; rows read is the number of
\* input rows and rows written the number of output rows.
C12_KeptRowsAndCounters ==
    FilterCsvReturned =>
        /\ CompletelyFiltered(fs[run.output_path.s], run.orig)
        /\ run.total_in = Len(run.orig.lines) - 1
        /\ run.total_out = Len(fs[run.output_path.s].lines) - 1

\* C12: for every table with a magic column and every chunk size a successful
\* filter_csv run ends with the same output and counters: where the chunk
\* boundaries fall changes nothing, so the output equals the output of a run
\* with any other chunk size.
C12_ChunkBoundariesInvisible ==
    FilterCsvReturned =>
        /\ run.total_in = Len(run.orig.lines) - 1
        /\ run.total_out = Len(fs[run.output_path.s].lines) - 1
        /\ \A n \in 1..MaxChunkSize :
            fs[run.output_path.s].lines = OutputOfRun(run.orig.lines, n)


(***************************************************************************)
(* Claims about the input file in explicit-output mode                     *)
(***************************************************************************)
\* a call of filter_csv on an existing input file has returned or raised
FilterCsvEnded ==
    /\ call = <<"filter_csv">>
    /\ pc \in {"returned", "raised"}
    /\ run.orig.kind = "file"

\* C13: in explicit-output mode, for every existing input file and every output
\* path the caller gives, one naming the input file included, the input file
\* still exists with its original content when the call returns or raises.
C13_InputSurvivesEveryOutputPath ==
    FilterCsvEnded => fs[run.input_path] = run.orig

\* C13 (other paths): with an output path that is not the input path, or with
\* none, the input file keeps its original content in every state of the call.
C13_InputSurvivesOtherOutputPath ==
    (call = <<"filter_csv">> /\ arg.output_path # PyStr(arg.input_path)) =>
        fs[run.input_path] = run.orig

====
